---- MODULE Spec2Model ----
(***************************************************************************)
(* The concurrent crawl-and-extract engine of main.py: run_all_scrapes     *)
(* (the scheduler and its wavefront loop) and scrap_table (one task of the *)
(* thread pool), with the module globals visited_links, lock and count.    *)
(*                                                                         *)
(* A task is cut into steps at the places where it touches state shared    *)
(* with other threads (visited_links, count under lock, the output files,  *)
(* the executor's queue); the code between two such places is local to the *)
(* thread and is folded into the step that precedes it.                    *)
(***************************************************************************)
EXTENDS Integers, Sequences, FiniteSets, TLC

VARIABLES
    folder_name,    \* the module global create_unique_folder reads (main.py:26);
                    \* main.py never assigns it: Unbound unless the importer did
    max_depth,      \* run_all_scrapes' argument
    web,            \* what the site serves: URL -> [links, tables]
    visited_links,  \* main.py:15
    count,          \* main.py:17
    tasks,          \* the futures of the executor: handle -> task
    files,          \* the files written by to_json: a set of [path, src, records]
    issued,         \* history: the identifiers handed out at main.py:115-116, in order
    sched,          \* where run_all_scrapes is
    seed_i,         \* index of the for loop over base_targets (main.py:169)
    futures,        \* main.py:168/193; its order is never used: a set of handles
    new_futures,    \* main.py:185, likewise
    yielded,        \* the futures as_completed(futures) has yielded (main.py:186)
    waited          \* history: every future some as_completed(futures) has yielded

vars == <<folder_name, max_depth, web, visited_links, count, tasks, files, issued,
          sched, seed_i, futures, new_futures, yielded, waited>>

----------------------------------------------------------------------------
(* Bounds of the model *)

MaxDepthBound == 2      \* max_depth ranges over 0..MaxDepthBound
MaxCols == 2            \* a drawn table has at most MaxCols th cells
MaxRows == 2            \* a drawn table has at most MaxRows tr rows
MaxCells == 3           \* a drawn row has at most MaxCells td cells
MaxFetchFailures == 1   \* at most so many fetches of a run fail
MaxIoFailures == 1      \* at most so many file writes of a run fail in the file system

(* Program constants *)

max_workers == 10       \* ThreadPoolExecutor(max_workers=10)

Unbound == "<unbound>"  \* a global name with no binding: reading it raises NameError

base_targets == <<"ent", "grp", "sw">>
keywords == {"/techniques/", "/groups/", "/software/"}

----------------------------------------------------------------------------
(* Values *)

Max(a, b) == IF a >= b THEN a ELSE b

Repeat(x, k) == IF k <= 0 THEN <<>> ELSE [j \in 1..k |-> x]    \* [x] * k

Range(s) == {s[j] : j \in 1..Len(s)}

None == <<>>            \* the missing value of a DataFrame cell (JSON null)
Some(x) == <<x>>        \* a cell holding the text x

(* An href is the places it names and the keyword substrings it contains;
   urljoin(base_url, href) resolves the relative and the absolute spelling
   of a place to the same absolute URL. *)
Href(to, kws, absolute) == [to |-> to, kws |-> kws, absolute |-> absolute]

urljoin(href) == href.to

\* the keyword test left out: every href qualifies
EveryHref(href) == TRUE

\* main.py:76: any(keyword in href for keyword in keywords)
AnyKeywordIn(href) == href.kws \cap keywords # {}

----------------------------------------------------------------------------
(* Table extraction and normalisation, main.py:88-111 *)

\* a parsed <table>: th the texts of its th cells, rows the td texts of each tr
Table(th, rows) == [th |-> th, rows |-> rows]

\* main.py:92-97: rows without td cells are skipped
AllData(table) == SelectSeq(table.rows, LAMBDA r : Len(r) > 0)

\* the row cut to num_headers cells and never padded
FixedRowNoPad(row, num_headers) ==
    SubSeq(row, 1, IF Len(row) < num_headers THEN Len(row) ELSE num_headers)

\* main.py:106: (row + [""] * (num_headers - len(row)))[:num_headers]
FixedRow(row, num_headers) ==
    SubSeq(row \o Repeat("", num_headers - Len(row)), 1, num_headers)

\* main.py:105-109: pd.DataFrame(fixed_data, columns=headings): one column per
\* heading; a row shorter than the columns has no value in the columns it lacks
\* (no row of fixed_data is longer than headings, which pandas would refuse)
HeaderFrame(headings, all_data) ==
    [columns |-> headings,
     data |-> [i \in 1..Len(all_data) |->
                 LET fixed == FixedRow(all_data[i], Len(headings))
                 IN  [j \in 1..Len(headings) |->
                        IF j <= Len(fixed) THEN Some(fixed[j]) ELSE None]]]

RECURSIVE MaxLen(_)
MaxLen(rows) == IF rows = <<>> THEN 0 ELSE Max(Len(Head(rows)), MaxLen(Tail(rows)))

\* a frame of the header-less rows padded with empty strings
PlainFramePadded(all_data) ==
    LET width == MaxLen(all_data)
    IN  [columns |-> [j \in 1..width |-> ToString(j - 1)],
         data |-> [i \in 1..Len(all_data) |->
                     [j \in 1..width |->
                        Some(IF j <= Len(all_data[i]) THEN all_data[i][j] ELSE "")]]]

\* main.py:111: pd.DataFrame(all_data): one column per position of the longest
\* row, labelled 0, 1, ...; a shorter row has no value in the columns it lacks
PlainFrame(all_data) ==
    LET width == MaxLen(all_data)
    IN  [columns |-> [j \in 1..width |-> ToString(j - 1)],
         data |-> [i \in 1..Len(all_data) |->
                     [j \in 1..width |->
                        IF j <= Len(all_data[i]) THEN Some(all_data[i][j]) ELSE None]]]

\* main.py:103-111
Frame(table) ==
    IF table.th # <<>> THEN HeaderFrame(table.th, AllData(table))
    ELSE PlainFrame(AllData(table))

\* the test made on the tr rows instead of the rows that have td cells
HasRows(table) == table.rows # <<>>

\* main.py:99
HasData(table) == AllData(table) # <<>>

\* to_json(orient="records") refuses a frame whose column labels repeat
ColumnsUnique(df) ==
    \A i, j \in 1..Len(df.columns) : df.columns[i] = df.columns[j] => i = j

\* main.py:118: one record per row, its fields <<label, value>> in column order
ToJsonRecords(df) ==
    [i \in 1..Len(df.data) |->
       [j \in 1..Len(df.columns) |-> <<df.columns[j], df.data[i][j]>>]]

----------------------------------------------------------------------------
(* The site.  A page is the <a href> elements and the <table> elements of
   its document, in document order. *)

Page(links, tables) == [links |-> links, tables |-> tables]

Tech(to) == Href(to, {"/techniques/"}, FALSE)
TechAbs(to) == Href(to, {"/techniques/"}, TRUE)
Grp(to) == Href(to, {"/groups/"}, FALSE)
Other(to) == Href(to, {}, FALSE)

NamesTable == Table(<<"ID", "Name">>, <<<<>>, <<"T1", "Phishing">>, <<"T2">>>>)
BareTable == Table(<<>>, <<<<"x">>, <<"y", "z">>>>)
LayoutTable == Table(<<"Menu">>, <<<<>>>>)

URLs == {"ent", "grp", "sw", "T1", "T2", "about"}

EmptyPage == Page(<<>>, <<>>)

\* two sibling seed pages name the same child, one of them twice (relative and
\* absolute spelling); the child links back to its parent and to itself
SharedChildWeb ==
    [u \in URLs |->
       CASE u = "ent" -> Page(<<Tech("T1"), TechAbs("T1")>>, <<NamesTable>>)
         [] u = "grp" -> Page(<<Tech("T1")>>, <<>>)
         [] u = "sw"  -> Page(<<Other("about")>>, <<>>)
         [] u = "T1"  -> Page(<<Tech("ent"), Tech("T1")>>, <<LayoutTable, BareTable>>)
         [] OTHER     -> EmptyPage]

\* a chain two links deep with a cycle at its end; a seed that is also the
\* child of another seed
ChainWeb ==
    [u \in URLs |->
       CASE u = "ent" -> Page(<<Grp("grp"), Tech("T1")>>, <<>>)
         [] u = "T1"  -> Page(<<Tech("T2")>>, <<BareTable>>)
         [] u = "T2"  -> Page(<<Tech("T1"), Tech("T2")>>, <<NamesTable>>)
         [] OTHER     -> EmptyPage]

\* a seed (grp) that is also the child of another seed and links on: T2 is one
\* link from the seed grp and two links from the seed ent
SeedChildWeb ==
    [u \in URLs |->
       CASE u = "ent" -> Page(<<Grp("grp")>>, <<>>)
         [] u = "grp" -> Page(<<Tech("T2")>>, <<>>)
         [] OTHER     -> EmptyPage]

CrawlWebs == {SharedChildWeb, ChainWeb, SeedChildWeb}

----------------------------------------------------------------------------
(* Tasks *)

\* executor.submit(scrap_table, url, base_url, folder, depth, ...): a future.
\* A handle names the future by where it was submitted: <<i>> is the task of the
\* i-th category, Append(t, k) the one task t submitted for its k-th link.
NewTask(url, folder, depth, parent) ==
    [url |-> url, folder |-> folder, depth |-> depth, parent |-> parent,
     pc |-> "queued",       \* queued, visit, scan, tables, store, submit, done, raised
     entry |-> "none",      \* outcome of the test at main.py:50: none, passed, rejected
     fetch |-> "none",      \* outcome of main.py:61-62: none, ok, failed
     k |-> 0,               \* position in the loop the task is in
     id_links |-> <<>>,     \* main.py:72
     file_id |-> 0,         \* the count read under the lock, main.py:116
     raised_at |-> 0,       \* the table whose to_json raised, 0 if none
     io_error |-> FALSE,    \* that exception came from the file system
     new_futures |-> <<>>]  \* main.py:124; the result once pc = "done"

TaskIds == DOMAIN tasks

FetchFailures == {t \in TaskIds : tasks[t].fetch = "failed"}

IoFailures == {t \in TaskIds : tasks[t].raised_at # 0 /\ tasks[t].io_error}

Finished(t) == tasks[t].pc \in {"done", "raised"}

Running == {t \in TaskIds : tasks[t].pc \notin {"queued", "done", "raised"}}

page(t) == web[tasks[t].url]

\* main.py:50
Skip(url, depth, visited, maxd) == url \in visited \/ depth > maxd

\* the depth test made on the parent's depth
MaySubmitParentDepth(nextd, maxd, id_links) ==
    nextd - 1 <= maxd /\ id_links # <<>>

\* the return left out: the rejected invocation goes on to add and fetch
RejectedGoesOn(tsk) == [tsk EXCEPT !.pc = "visit", !.entry = "rejected"]

\* main.py:50-51: return []
Rejected(tsk) == [tsk EXCEPT !.pc = "done", !.entry = "rejected"]

\* the child given its parent's depth
SameDepth(depth) == depth

\* main.py:125
next_depth(depth) == depth + 1

\* main.py:126
MaySubmit(nextd, maxd, id_links) == nextd <= maxd /\ id_links # <<>>

\* the increment left out
CountKept(c) == c

\* main.py:115
NextCount(c) == c + 1

\* main.py:116
FilePath(folder, c) == <<folder, "website_tables", c>>

\* the task at main.py:124-142 with the tables done: submit the children or return
AfterTables(tsk) ==
    IF MaySubmit(next_depth(tsk.depth), max_depth, tsk.id_links)
    THEN [tsk EXCEPT !.pc = "submit", !.k = 1]
    ELSE [tsk EXCEPT !.pc = "done", !.k = 0]

\* the task at main.py:84-88 with the links scanned
AfterScan(tsk) ==
    IF web[tsk.url].tables # <<>>
    THEN [tsk EXCEPT !.pc = "tables", !.k = 1]
    ELSE AfterTables(tsk)

\* the task at main.py:67-74 with the page fetched and parsed
AfterFetch(tsk) ==
    IF keywords # {} /\ web[tsk.url].links # <<>>
    THEN [tsk EXCEPT !.pc = "scan", !.k = 1]
    ELSE AfterScan(tsk)

\* the failure logged and the return left out: the task goes on to parse
FetchFailedGoesOn(tsk) == AfterFetch([tsk EXCEPT !.fetch = "failed"])

\* main.py:63-65: a failed fetch is logged and the task returns []
FetchFailed(tsk) == [tsk EXCEPT !.fetch = "failed", !.pc = "done"]

\* the for loop at main.py:88 moving to the next table
NextTable(tsk) ==
    IF tsk.k < Len(web[tsk.url].tables)
    THEN [tsk EXCEPT !.pc = "tables", !.k = tsk.k + 1]
    ELSE AfterTables(tsk)

----------------------------------------------------------------------------
(* scrap_table, one step of task t *)

\* main.py:46-51: a worker takes the task and tests visited_links and depth
Check(t) ==
    /\ tasks[t].pc = "queued"
    /\ Cardinality(Running) < max_workers
    /\ tasks' = [tasks EXCEPT ![t] =
          IF Skip(@.url, @.depth, visited_links, max_depth)
          THEN Rejected(@)
          ELSE [@ EXCEPT !.pc = "visit", !.entry = "passed"]]
    /\ UNCHANGED <<folder_name, max_depth, web, visited_links, count, files, issued,
                   sched, seed_i, futures, new_futures, yielded, waited>>

\* main.py:52-67: add the URL, fetch the page; a failed fetch returns []
Visit(t) ==
    /\ tasks[t].pc = "visit"
    /\ visited_links' = visited_links \cup {tasks[t].url}
    /\ \E ok \in BOOLEAN :
          /\ ~ok => Cardinality(FetchFailures) < MaxFetchFailures
          /\ tasks' = [tasks EXCEPT ![t] =
                IF ok THEN AfterFetch([@ EXCEPT !.fetch = "ok"])
                ELSE FetchFailed(@)]
    /\ UNCHANGED <<folder_name, max_depth, web, count, files, issued,
                   sched, seed_i, futures, new_futures, yielded, waited>>

\* main.py:74-79: one <a href> of the page
ScanLink(t) ==
    /\ tasks[t].pc = "scan"
    /\ LET tsk == tasks[t]
           href == page(t).links[tsk.k]
           abs_link == urljoin(href)
           kept == IF AnyKeywordIn(href) /\ abs_link \notin visited_links
                   THEN [tsk EXCEPT !.id_links = Append(@, abs_link)]
                   ELSE tsk
       IN  tasks' = [tasks EXCEPT ![t] =
              IF tsk.k < Len(page(t).links)
              THEN [kept EXCEPT !.k = tsk.k + 1]
              ELSE AfterScan(kept)]
    /\ UNCHANGED <<folder_name, max_depth, web, visited_links, count, files, issued,
                   sched, seed_i, futures, new_futures, yielded, waited>>

\* main.py:88-116: one <table>: skipped without data, else count += 1 under the lock
TakeId(t) ==
    /\ tasks[t].pc = "tables"
    /\ LET tsk == tasks[t]
           table == page(t).tables[tsk.k]
       IN  IF HasData(table)
           THEN /\ count' = NextCount(count)
                /\ issued' = Append(issued, [id |-> count', task |-> t, tbl |-> tsk.k])
                /\ tasks' = [tasks EXCEPT ![t] = [tsk EXCEPT !.pc = "store", !.file_id = count']]
           ELSE /\ tasks' = [tasks EXCEPT ![t] = NextTable(tsk)]
                /\ UNCHANGED <<count, issued>>
    /\ UNCHANGED <<folder_name, max_depth, web, visited_links, files,
                   sched, seed_i, futures, new_futures, yielded, waited>>

\* main.py:118: df.to_json(file_path, orient="records"); it raises on repeated
\* column labels and on an I/O error, and the exception leaves scrap_table
Store(t) ==
    /\ tasks[t].pc = "store"
    /\ LET tsk == tasks[t]
           df == Frame(page(t).tables[tsk.k])
           path == FilePath(tsk.folder, tsk.file_id)
       IN  \E io_ok \in BOOLEAN :
              /\ ~io_ok => ColumnsUnique(df) /\ Cardinality(IoFailures) < MaxIoFailures
              /\ IF ColumnsUnique(df) /\ io_ok
                 THEN /\ files' = {f \in files : f.path # path} \cup
                                  {[path |-> path, task |-> t, tbl |-> tsk.k,
                                    records |-> ToJsonRecords(df)]}
                      /\ tasks' = [tasks EXCEPT ![t] = NextTable(tsk)]
                 ELSE /\ tasks' = [tasks EXCEPT ![t] =
                                     [tsk EXCEPT !.pc = "raised", !.raised_at = tsk.k,
                                                 !.io_error = ~io_ok]]
                      /\ UNCHANGED files
    /\ UNCHANGED <<folder_name, max_depth, web, visited_links, count, issued,
                   sched, seed_i, futures, new_futures, yielded, waited>>

\* main.py:127-142: executor.submit for one link of id_links; return after the last
Submit(t) ==
    /\ tasks[t].pc = "submit"
    /\ LET tsk == tasks[t]
           child == NewTask(tsk.id_links[tsk.k], tsk.folder, next_depth(tsk.depth), t)
           handle == Append(t, tsk.k)
           sent == [tsk EXCEPT !.new_futures = Append(@, handle)]
       IN  tasks' = (handle :> child) @@
                    [tasks EXCEPT ![t] =
                        IF tsk.k < Len(tsk.id_links)
                        THEN [sent EXCEPT !.k = tsk.k + 1]
                        ELSE [sent EXCEPT !.pc = "done", !.k = 0]]
    /\ UNCHANGED <<folder_name, max_depth, web, visited_links, count, files, issued,
                   sched, seed_i, futures, new_futures, yielded, waited>>

----------------------------------------------------------------------------
(* run_all_scrapes *)

\* main.py:26: os.path.join(folder_name, ...) reads the global folder_name
create_unique_folder(base_name) == folder_name

\* main.py:150-152
StartRun ==
    /\ sched = "start"
    /\ count' = 0
    /\ visited_links' = {}
    /\ sched' = "seed"
    /\ seed_i' = 1
    /\ UNCHANGED <<folder_name, max_depth, web, tasks, files, issued,
                   futures, new_futures, yielded, waited>>

\* main.py:169-181: one category: its folder, its task
SubmitSeed ==
    /\ sched = "seed"
    /\ folder_name # Unbound
    /\ LET url == base_targets[seed_i]
           folder == create_unique_folder(url)
       IN  /\ tasks' = (<<seed_i>> :> NewTask(url, folder, 0, <<>>)) @@ tasks
           /\ futures' = futures \cup {<<seed_i>>}
    /\ seed_i' = seed_i + 1
    /\ sched' = IF seed_i = Len(base_targets) THEN "loop" ELSE "seed"
    /\ UNCHANGED <<folder_name, max_depth, web, visited_links, count, files, issued,
                   new_futures, yielded, waited>>

\* main.py:26 with folder_name unbound: NameError leaves run_all_scrapes
SeedCrash ==
    /\ sched = "seed"
    /\ folder_name = Unbound
    /\ sched' = "crashed"
    /\ UNCHANGED <<folder_name, max_depth, web, visited_links, count, tasks, files,
                   issued, seed_i, futures, new_futures, yielded, waited>>

\* the result assigned to new_futures instead of added to it
Replaced(new, extra) == IF extra # {} THEN extra ELSE new

\* main.py:189-190: if extra: new_futures.extend(extra)
Extended(new, extra) == new \cup extra

\* f.result() outside any try: the exception of a task leaves run_all_scrapes
ResultUncaught(tsk) == IF tsk.pc = "raised" THEN "crashed" ELSE "loop"

\* main.py:187-192: the exception f.result() re-raises is caught and printed, and
\* the for loop goes on
AfterResult(tsk) == "loop"

\* main.py:186-192: as_completed yields a finished future; its result is collected
Collect ==
    /\ sched = "loop"
    /\ \E f \in futures \ yielded :
          /\ Finished(f)
          /\ yielded' = yielded \cup {f}
          /\ waited' = waited \cup {f}
          /\ new_futures' = IF tasks[f].pc = "done"
                            THEN Extended(new_futures, Range(tasks[f].new_futures))
                            ELSE new_futures
          /\ sched' = AfterResult(tasks[f])
    /\ UNCHANGED <<folder_name, max_depth, web, visited_links, count, tasks, files,
                   issued, seed_i, futures>>

\* the new futures added to the list instead of replacing it
KeepFutures(old, new) == old \cup new

\* main.py:193 and 184: the wavefront is drained; the next one, or out of the loop
NextFutures(old, new) == new

NextWave ==
    /\ sched = "loop"
    /\ futures \subseteq yielded
    /\ futures' = NextFutures(futures, new_futures)
    /\ new_futures' = {}
    /\ yielded' = {}
    /\ sched' = IF futures' = {} THEN "shutdown" ELSE "loop"
    /\ UNCHANGED <<folder_name, max_depth, web, visited_links, count, tasks, files,
                   issued, seed_i, waited>>

\* main.py:167 and 195: leaving the with block waits for the pool, then the summary
Finish ==
    /\ sched = "shutdown"
    /\ \A t \in TaskIds : Finished(t)
    /\ sched' = "finished"
    /\ UNCHANGED <<folder_name, max_depth, web, visited_links, count, tasks, files,
                   issued, seed_i, futures, new_futures, yielded, waited>>

\* main.py:195: what the summary line reports (and the elapsed time)
Summary == [tables |-> count]

Scheduler == StartRun \/ SubmitSeed \/ SeedCrash \/ Collect \/ NextWave \/ Finish

----------------------------------------------------------------------------

\* The module as loaded.  main.py leaves the global folder_name unbound, and
\* then run_all_scrapes ends in create_unique_folder before it submits a task;
\* everything after that line runs only where the name is bound, so both
\* states of the name are initial states.
Init ==
    /\ folder_name \in {Unbound, "out"}
    /\ max_depth \in 0..MaxDepthBound
    /\ web \in CrawlWebs
    /\ visited_links = {}
    /\ count = 0
    /\ tasks = <<>>
    /\ files = {}
    /\ issued = <<>>
    /\ sched = "start"
    /\ seed_i = 0
    /\ futures = {}
    /\ new_futures = {}
    /\ yielded = {}
    /\ waited = {}

Pool ==
    \/ \E t \in TaskIds : Check(t)
    \/ \E t \in TaskIds : Visit(t)
    \/ \E t \in TaskIds : ScanLink(t)
    \/ \E t \in TaskIds : TakeId(t)
    \/ \E t \in TaskIds : Store(t)
    \/ \E t \in TaskIds : Submit(t)

Next == Scheduler \/ Pool

Spec == Init /\ [][Next]_vars

\* The main thread and the threads of the pool are scheduled by the operating
\* system and every fetch returns or times out (timeout=20): as long as some
\* thread can take a step, a step is taken.  Fairness to each single thread,
\* which the scheduler also gives, is not needed.
FairSpec == Spec /\ WF_vars(Next)

----------------------------------------------------------------------------
(* scrap_table applied to one page, submitted to the executor on its own
   (no run_all_scrapes: sched stays "direct").  The first table of the page is
   drawn from every header sequence and every sequence of row lengths within
   the bounds; a second table follows it. *)

HeaderTexts == {"A", "B"}

SeqsUpTo(S, n) == UNION {[1..k -> S] : k \in 0..n}

CellRow(m) == [j \in 1..m |-> ToString(j)]

DrawnTables ==
    {Table(th, [i \in 1..Len(lens) |-> CellRow(lens[i])]) :
        th \in SeqsUpTo(HeaderTexts, MaxCols),
        lens \in SeqsUpTo(0..MaxCells, MaxRows)}

TableWebs == {[u \in {"page"} |-> Page(<<>>, <<table, BareTable>>)] : table \in DrawnTables}

InitPage ==
    /\ folder_name = "out"
    /\ max_depth = 1
    /\ web \in TableWebs
    /\ visited_links = {}
    /\ count = 0
    /\ tasks = (<<1>> :> NewTask("page", "out", 0, <<>>))
    /\ files = {}
    /\ issued = <<>>
    /\ sched = "direct"
    /\ seed_i = 0
    /\ futures = {}
    /\ new_futures = {}
    /\ yielded = {}
    /\ waited = {}

NextPage ==
    \/ \E t \in TaskIds : Check(t)
    \/ \E t \in TaskIds : Visit(t)
    \/ \E t \in TaskIds : TakeId(t)
    \/ \E t \in TaskIds : Store(t)

PageSpec == InitPage /\ [][NextPage]_vars

----------------------------------------------------------------------------
(* The properties *)

TableOf(t, k) == web[tasks[t].url].tables[k]

\* the tr rows of a table that have at least one td cell, in document order
DataRows(table) == SelectSeq(table.rows, LAMBDA r : r # <<>>)

\* the tasks that passed the test at the entry of scrap_table for URL u
PassedFor(u) == {t \in TaskIds : tasks[t].url = u /\ tasks[t].entry = "passed"}

\* the tasks a worker submitted for URL u
ChildTasksFor(u) == {t \in TaskIds : tasks[t].url = u /\ tasks[t].parent # <<>>}

\* C1: for every URL at most one invocation of scrap_table passes the visited
\* test at entry and goes on to fetch it, under every interleaving.
C1_AtMostOneClaim == \A u \in URLs : Cardinality(PassedFor(u)) <= 1

\* C2: the identifiers that name the saved tables are 1, 2, 3, ... in the order
\* they are assigned: unique, strictly increasing, starting at 1, and a file
\* carries the identifier its table was assigned.
C2_ArtifactIdsIncrease ==
    /\ \A i \in 1..Len(issued) : issued[i].id = i
    /\ \A f \in files : \E i \in 1..Len(issued) :
          /\ f.path[3] = issued[i].id
          /\ f.task = issued[i].task /\ f.tbl = issued[i].tbl
    /\ \A f, g \in files : f.path = g.path => f = g

\* two tasks hold an identifier at the same time, each about to write its file
C2_Witness ==
    \E t, u \in TaskIds :
        /\ t # u
        /\ tasks[t].pc = "store" /\ tasks[u].pc = "store"
        /\ Len(issued) >= 3

\* C3: every task submitted to the pool, queued, running or completed, has
\* depth <= max_depth.
C3_DepthBounded == \A t \in TaskIds : tasks[t].depth <= max_depth

\* a task at depth max_depth >= 1 found qualifying links and returned without
\* submitting any
C3_Witness ==
    \E t \in TaskIds :
        /\ tasks[t].depth = max_depth /\ max_depth >= 1
        /\ tasks[t].id_links # <<>>
        /\ tasks[t].pc = "done" /\ tasks[t].new_futures = <<>>

\* C4: a URL that is a qualifying child link of two sibling pages, or twice of
\* one page, gets exactly one task.
C4_OneTaskPerChild == \A u \in URLs : Cardinality(ChildTasksFor(u)) <= 1

\* C6: a task whose fetch fails has returned [] at once: it was assigned no
\* identifier, wrote no file, kept no link and submitted no task.
C6_FailedFetchContributesNothing ==
    \A t \in TaskIds : tasks[t].fetch = "failed" =>
        /\ tasks[t].pc = "done"
        /\ tasks[t].id_links = <<>> /\ tasks[t].new_futures = <<>>
        /\ \A i \in 1..Len(issued) : issued[i].task # t
        /\ \A f \in files : f.task # t
        /\ \A c \in TaskIds : tasks[c].parent # t

\* the run finished with the fetch of a page with tables and qualifying links
\* failed, and a table of another page saved
C6_Witness ==
    /\ sched = "finished"
    /\ \E t \in TaskIds :
          /\ tasks[t].fetch = "failed"
          /\ web[tasks[t].url].tables # <<>>
          /\ \E j \in 1..Len(web[tasks[t].url].links) :
                AnyKeywordIn(web[tasks[t].url].links[j])
          /\ \E f \in files : f.task # t

\* C9: a table none of whose rows has a td cell is assigned no identifier and
\* no file is written for it; count is the number of identifiers assigned.
C9_EmptyTableNoArtifact ==
    /\ count = Len(issued)
    /\ \A i \in 1..Len(issued) : DataRows(TableOf(issued[i].task, issued[i].tbl)) # <<>>
    /\ \A f \in files : DataRows(TableOf(f.task, f.tbl)) # <<>>

\* a task passed over a table without data rows and saved the table after it
C9_Witness ==
    \E f \in files :
        /\ f.tbl = 2
        /\ TableOf(f.task, 1).rows # <<>>
        /\ DataRows(TableOf(f.task, 1)) = <<>>

\* the run is over: the wavefront loop was left and the summary printed, or
\* NameError left run_all_scrapes before any task was submitted
RunEnded ==
    \/ sched = "finished"
    \/ sched = "crashed" /\ TaskIds = {}

HeaderRecord(H, row) ==
    [j \in 1..Len(H) |-> <<H[j], <<IF j <= Len(row) THEN row[j] ELSE "">> >>]

\* C7: a saved table with headers H, |H| = n >= 1, has one record per data row,
\* each of exactly n fields keyed by the headers in header order: a row of
\* m < n cells is padded with empty strings, one of m > n cells loses the cells
\* beyond n; and a task that returned saved every such table of its page.
C7_HeaderRecordsCoerced ==
    /\ \A f \in files :
          LET table == TableOf(f.task, f.tbl)
              rows == DataRows(table)
          IN  table.th # <<>> =>
                 /\ Len(f.records) = Len(rows)
                 /\ \A i \in 1..Len(rows) :
                       /\ Len(f.records[i]) = Len(table.th)
                       /\ f.records[i] = HeaderRecord(table.th, rows[i])
    /\ \A t \in TaskIds : tasks[t].pc = "done" /\ tasks[t].fetch = "ok" =>
          \A k \in 1..Len(web[tasks[t].url].tables) :
             TableOf(t, k).th # <<>> /\ DataRows(TableOf(t, k)) # <<>> =>
                \E f \in files : f.task = t /\ f.tbl = k

\* a saved table with headers has a row shorter and a row longer than the headers
C7_Witness ==
    \E f \in files :
        LET table == TableOf(f.task, f.tbl)
            rows == DataRows(table)
        IN  /\ table.th # <<>>
            /\ \E i \in 1..Len(rows) : Len(rows[i]) < Len(table.th)
            /\ \E i \in 1..Len(rows) : Len(rows[i]) > Len(table.th)

\* the length of the longest of the rows
Widest(rows) ==
    IF rows = <<>> THEN 0
    ELSE CHOOSE w \in {Len(rows[i]) : i \in 1..Len(rows)} :
            \A i \in 1..Len(rows) : Len(rows[i]) <= w

\* C8 as stated: in a saved table without headers the record of a row of k
\* cells has exactly k fields.
C8_RowLengthKept ==
    \A f \in files :
        LET table == TableOf(f.task, f.tbl)
            rows == DataRows(table)
        IN  table.th = <<>> =>
               \A i \in 1..Len(rows) : Len(f.records[i]) = Len(rows[i])

\* C8 amended: in a saved table without headers every record has one field per
\* position of the table's longest row, keyed "0", "1", ... in order; a row of
\* k cells fills the first k and has null in the others.
C8_PlainRecordsPaddedWithNull ==
    \A f \in files :
        LET table == TableOf(f.task, f.tbl)
            rows == DataRows(table)
        IN  table.th = <<>> =>
               /\ Len(f.records) = Len(rows)
               /\ \A i \in 1..Len(rows) :
                     /\ Len(f.records[i]) = Widest(rows)
                     /\ \A j \in 1..Widest(rows) :
                           f.records[i][j] =
                              <<ToString(j - 1),
                                IF j <= Len(rows[i]) THEN <<rows[i][j]>> ELSE <<>> >>

\* a saved table without headers has rows of different lengths
C8_Witness ==
    \E f \in files :
        LET table == TableOf(f.task, f.tbl)
            rows == DataRows(table)
        IN  /\ table.th = <<>>
            /\ \E i, j \in 1..Len(rows) : Len(rows[i]) < Len(rows[j])

\* C10: after a failed write of one table of a page, the task still handles the
\* tables that follow it on the page: each of them with data rows is assigned
\* an identifier and written.
C10_StoreFailureGoesOn ==
    \A t \in TaskIds : Finished(t) /\ tasks[t].raised_at # 0 =>
        \A k \in (tasks[t].raised_at + 1)..Len(web[tasks[t].url].tables) :
            DataRows(TableOf(t, k)) # <<>> =>
                \E i \in 1..Len(issued) : issued[i].task = t /\ issued[i].tbl = k

\* the tasks a worker submitted, each with its parent's handle in parent
ChildTasks == {c \in TaskIds : tasks[c].parent # <<>>}

\* C11: the summary of a finished run reports a failure count, and it is the
\* number of tasks whose fetch failed.
C11_FailuresCounted ==
    sched = "finished" =>
        /\ "failures" \in DOMAIN Summary
        /\ Summary.failures = Cardinality(FetchFailures)

\* C12: once a task has raised an exception, the run still reaches the summary
\* with the result of every task submitted, before or after, collected by the
\* wavefront loop.
C12_RaiseDoesNotAbort ==
    (\E t \in TaskIds : tasks[t].pc = "raised")
        ~> (sched = "finished" /\ \A t \in TaskIds : Finished(t) /\ t \in waited)

\* the run finished with one task raised and the result of a task of a later
\* wavefront collected
C12_Witness ==
    /\ sched = "finished"
    /\ \E t, u \in TaskIds :
          /\ tasks[t].pc = "raised"
          /\ tasks[u].depth > tasks[t].depth /\ tasks[u].fetch = "ok"
          /\ u \in waited

\* C13: by the end of a run every category's seed URL has a depth-0 task of its
\* own that passed the test at entry and went on to fetch the seed page.
C13_SeedsFetched ==
    sched \in {"finished", "crashed"} =>
        \A i \in 1..Len(base_targets) :
            \E t \in TaskIds :
                /\ tasks[t].url = base_targets[i] /\ tasks[t].depth = 0
                /\ tasks[t].entry = "passed"

KeywordLinks(u) ==
    {web[u].links[j].to : j \in {i \in 1..Len(web[u].links) :
                                    web[u].links[i].kws \cap keywords # {}}}

\* C15: every task a worker submitted is for a URL that an href with a
\* configured keyword on its parent's page resolves to; a URL no such href
\* names and that is no seed never becomes a task.
C15_ChildrenMatchKeyword ==
    /\ \A c \in ChildTasks : tasks[c].url \in KeywordLinks(tasks[tasks[c].parent].url)
    /\ \A t \in TaskIds :
          \/ tasks[t].url \in Range(base_targets)
          \/ \E u \in URLs : tasks[t].url \in KeywordLinks(u)

\* a task fetched a page with an href without keyword and returned; the URL of
\* that href has no task, while another page's link has one
C15_Witness ==
    /\ ChildTasks # {}
    /\ \E t \in TaskIds :
          /\ tasks[t].fetch = "ok" /\ tasks[t].pc = "done"
          /\ \E j \in 1..Len(web[tasks[t].url].links) :
                LET href == web[tasks[t].url].links[j]
                IN  /\ href.kws \cap keywords = {}
                    /\ \A u \in TaskIds : tasks[u].url # href.to

\* C16: the total the summary reports is the number of tables written.
C16_TotalIsPersisted == sched = "finished" => Summary.tables = Cardinality(files)

\* the URLs within d qualifying links of a seed URL
RECURSIVE Reach(_)
Reach(d) ==
    IF d = 0 THEN Range(base_targets)
    ELSE Reach(d - 1) \cup UNION {KeywordLinks(u) : u \in Reach(d - 1)}

\* C17: when a run without a failed fetch finishes, every URL within max_depth
\* qualifying links of a seed has been fetched.
C17_ReachableFetched ==
    sched = "finished" /\ FetchFailures = {} =>
        \A u \in Reach(max_depth) :
            \E t \in TaskIds : tasks[t].url = u /\ tasks[t].fetch = "ok"

\* C18: from the exit of the wavefront loop on, every task ever submitted has
\* completed and its future was yielded by some wavefront.
C18_AllDoneAtLoopExit ==
    sched \in {"shutdown", "finished"} =>
        \A t \in TaskIds : Finished(t) /\ t \in waited

\* the loop exits after a wavefront of tasks that the tasks of a wavefront of
\* worker-submitted tasks submitted
C18_Witness ==
    /\ sched = "shutdown"
    /\ \E t \in TaskIds : tasks[t].depth >= 2

\* the step of task t from not yet tested to rejected at entry
Rejects(t) == tasks[t].entry = "none" /\ tasks'[t].entry = "rejected"

\* C19: the step that rejects an invocation at entry changes neither
\* visited_links nor count nor the files nor the set of tasks, and a rejected
\* invocation never fetched, was assigned no identifier, wrote no file and
\* submitted no task.
C19_RejectionChangesNothing ==
    /\ [](\A t \in TaskIds : tasks[t].entry = "rejected" =>
            /\ tasks[t].pc = "done" /\ tasks[t].fetch = "none"
            /\ tasks[t].new_futures = <<>>
            /\ \A i \in 1..Len(issued) : issued[i].task # t
            /\ \A f \in files : f.task # t
            /\ \A c \in ChildTasks : tasks[c].parent # t)
    /\ [][\A t \in TaskIds : Rejects(t) =>
            /\ visited_links' = visited_links
            /\ count' = count /\ issued' = issued
            /\ files' = files
            /\ DOMAIN tasks' = DOMAIN tasks]_vars

\* an invocation was rejected for a URL already visited, with tables saved
C19_Witness ==
    \E t \in TaskIds :
        /\ tasks[t].entry = "rejected"
        /\ tasks[t].url \in visited_links
        /\ tasks[t].depth <= max_depth
        /\ count > 0

====
